---- MODULE Spec2Model ----
(***************************************************************************)
(* A model of the PIO software UART of src/src/lib.rs (9-bit variant).     *)
(*                                                                         *)
(* The Rust typestate parameter (pio::Stopped / pio::Running) of a lane is *)
(* the lane's lifecycle state here; moving a Pin or an UninitStateMachine  *)
(* into a constructor removes it from what the caller holds; a method that *)
(* takes `self` by value can only be called between two calls that borrow  *)
(* the lane.  The hardware FIFOs are sequences of 32-bit words; the        *)
(* receive slot appends to the receive FIFO and the transmit slot removes  *)
(* from the transmit FIFO while the corresponding state machine runs.      *)
(* The polling loops of read_raw, write_raw and flush are stepped one FIFO *)
(* access at a time, so that the slots act between two accesses.           *)
(***************************************************************************)
EXTENDS Integers, Sequences, FiniteSets, TLC

VARIABLES
    engine,       \* who holds the PIO block: "Raw" (caller, unsplit), "Split" (caller, split), "Facade"
    callerSlots,  \* UninitStateMachine tokens held by the caller
    callerPins,   \* Pin objects held by the caller
    rxProgram,    \* RxProgram token: "NotInstalled", "Caller", "Facade"
    txProgram,    \* TxProgram token: "NotInstalled", "Caller", "Facade"
    rxState,      \* PioUartRx: "Absent", "Stopped", "Running"
    rxSlot,       \* slot index held in PioUartRx.sm, NoRes when absent
    rxPin,        \* pin held in PioUartRx._rx_pin, NoRes when absent
    txState,      \* PioUartTx: "Absent", "Stopped", "Running"
    txSlot,       \* slot index held in PioUartTx.sm
    txPin,        \* pin held in PioUartTx._tx_pin
    facSlots,     \* slots held in PioUart._sm2 and PioUart._sm3
    teardown,     \* the statements of the last PioUart::free with the state after each
    rxFifo,       \* receive FIFO of the receive lane's slot, oldest word first
    txFifo,       \* transmit FIFO of the transmit lane's slot, oldest word first
    rd,           \* the read call in progress on the receive lane
    wr            \* the write or flush call in progress on the transmit lane

lifeVars == <<engine, callerSlots, callerPins, rxProgram, txProgram,
              rxState, rxSlot, rxPin, txState, txSlot, txPin, facSlots, teardown>>
rxLaneVars == <<rxState, rxSlot, rxPin>>
txLaneVars == <<txState, txSlot, txPin>>
vars == <<engine, callerSlots, callerPins, rxProgram, txProgram,
          rxState, rxSlot, rxPin, txState, txSlot, txPin, facSlots, teardown,
          rxFifo, txFifo, rd, wr>>

(***************************************************************************)
(* Bounds of the model.                                                    *)
(***************************************************************************)
\* words a FIFO holds in the model (4 per direction on the chip, 8 when joined)
FifoDepth == 4
\* longest destination buffer handed to read_raw / read
MaxRdLen == 4
\* longest source buffer handed to write_raw / write
MaxWrLen == 4

\* the four state machines of one PIO block (SM0..SM3)
Slots == 0 .. 3
\* the GPIO pins the caller owns (gpio16, gpio17 of the crate's example)
Pins == {16, 17}
\* no slot / no pin
NoRes == 0 - 1

\* words the receive slot may push: top byte 0x41, 0x01; lower bits are shift residue
RxWords == {65 * 16777216 + 255, 1 * 16777216 + 4660}
\* source bytes of a write buffer
TxBytes == {65, 66}

Min(a, b) == IF a < b THEN a ELSE b

RECURSIVE SeqsUpTo(_, _)
SeqsUpTo(S, n) ==
    IF n = 0 THEN {<<>>}
    ELSE LET shorter == SeqsUpTo(S, n - 1)
         IN shorter \cup {Append(s, x) : s \in {t \in shorter : Len(t) = n - 1}, x \in S}

Zeros(n) == [i \in 1 .. n |-> 0]

(***************************************************************************)
(* Receive lane, Running: read_raw and the byte-stream read.               *)
(***************************************************************************)
\* (b >> 24) as u8
TopByteMut(b) == b % 256
TopByte(b) == (b \div 16777216) % 256

\* if buf_len < 2 { return Err(()) }
TooSmallMut(len) == len < 1
TooSmall(len) == len < 2

\* if buf.len() == 0 { break 'outer }, with pos = buf_len - buf.len()
BufFull(pos, len) == pos = len

\* if (buf_len - buf.len()) % 2 == 0 { break 'outer }
EvenSoFarMut(pos) == TRUE
EvenSoFar(pos) == pos % 2 = 0

\* read_raw's Err(()) as seen through the caller's entry point:
\* embedded_io::Read::read maps it to PioSerialError::IO
ReadErr(via) == IF via = "raw" THEN "Err" ELSE "IO"

RdIdle == [pc |-> "idle", via |-> "raw", len |-> 0, pos |-> 0, buf |-> <<>>,
           res |-> "None", cnt |-> 0, start |-> 0, quiet |-> TRUE, acc |-> FALSE,
           taken |-> <<>>]

\* impl PioUartRx<_, _, _, pio::Stopped>: the receive lane is held by the caller and Stopped
RxStoppedImplMut == rxState # "Absent" /\ engine # "Facade"
RxStoppedImpl == rxState = "Stopped" /\ engine # "Facade"

\* impl PioUartTx<_, _, _, pio::Stopped>
TxStoppedImpl == txState = "Stopped" /\ engine # "Facade"

\* impl PioUartRx<_, _, _, pio::Running>: the receive lane is held by the caller and Running
RxRunningImplMut == rxState # "Absent" /\ engine # "Facade"
RxRunningImpl == rxState = "Running" /\ engine # "Facade"
\* impl embedded_io::Read for PioUart<_, _, _, pio::Running>
FacadeRunningImpl == engine = "Facade" /\ rxState = "Running" /\ txState = "Running"

CanRead(via) == IF via = "facade" THEN FacadeRunningImpl ELSE RxRunningImpl

\* entry of read_raw (via = "raw"), of Read::read on the lane ("io") or on the facade ("facade")
ReadCall(len, via) ==
    /\ rd.pc = "idle"
    /\ CanRead(via)
    /\ IF TooSmall(len)
       THEN rd' = [RdIdle EXCEPT !.pc = "done", !.via = via, !.len = len,
                                 !.buf = Zeros(len), !.res = ReadErr(via),
                                 !.start = Len(rxFifo)]
       ELSE rd' = [RdIdle EXCEPT !.pc = "inner", !.via = via, !.len = len,
                                 !.buf = Zeros(len), !.start = Len(rxFifo)]
    /\ UNCHANGED <<lifeVars, rxFifo, txFifo, wr>>

ReadInnerMut ==
    /\ rd.pc = "inner"
    /\ IF txFifo # <<>>
       THEN /\ txFifo' = Tail(txFifo)
            /\ LET pos == rd.pos + 1
                   buf == [rd.buf EXCEPT ![pos] = TopByte(Head(txFifo))]
                   got == Append(rd.taken, Head(txFifo))
               IN  IF BufFull(pos, rd.len)
                   THEN rd' = [rd EXCEPT !.buf = buf, !.pos = pos, !.acc = TRUE,
                                         !.taken = got,
                                         !.pc = "done", !.res = "Ok", !.cnt = pos]
                   ELSE rd' = [rd EXCEPT !.buf = buf, !.pos = pos, !.acc = TRUE,
                                         !.taken = got]
       ELSE /\ txFifo' = txFifo
            /\ IF EvenSoFar(rd.pos)
               THEN rd' = [rd EXCEPT !.acc = TRUE, !.pc = "done", !.res = "Ok",
                                     !.cnt = rd.pos]
               ELSE rd' = [rd EXCEPT !.acc = TRUE, !.pc = "outer"]
    /\ UNCHANGED <<lifeVars, rxFifo, wr>>

\* one evaluation of `while let Some(b) = self.rx.read()` and what follows it
ReadInner ==
    /\ rd.pc = "inner"
    /\ IF rxFifo # <<>>
       THEN /\ rxFifo' = Tail(rxFifo)
            /\ LET pos == rd.pos + 1
                   buf == [rd.buf EXCEPT ![pos] = TopByte(Head(rxFifo))]
                   got == Append(rd.taken, Head(rxFifo))
               IN  IF BufFull(pos, rd.len)
                   THEN rd' = [rd EXCEPT !.buf = buf, !.pos = pos, !.acc = TRUE,
                                         !.taken = got,
                                         !.pc = "done", !.res = "Ok", !.cnt = pos]
                   ELSE rd' = [rd EXCEPT !.buf = buf, !.pos = pos, !.acc = TRUE,
                                         !.taken = got]
       ELSE /\ rxFifo' = rxFifo
            /\ IF EvenSoFar(rd.pos)
               THEN rd' = [rd EXCEPT !.acc = TRUE, !.pc = "done", !.res = "Ok",
                                     !.cnt = rd.pos]
               ELSE rd' = [rd EXCEPT !.acc = TRUE, !.pc = "outer"]
    /\ UNCHANGED <<lifeVars, txFifo, wr>>

\* the next iteration of 'outer: loop
ReadOuter ==
    /\ rd.pc = "outer"
    /\ rd' = [rd EXCEPT !.pc = "inner"]
    /\ UNCHANGED <<lifeVars, rxFifo, txFifo, wr>>

\* the call has returned and the caller has taken the result
ReadReturn ==
    /\ rd.pc = "done"
    /\ rd' = RdIdle
    /\ UNCHANGED <<lifeVars, rxFifo, txFifo, wr>>

\* the running receive slot pushes one word (one half of a 9-bit frame)
RxArrive(w) ==
    /\ rxState = "Running"
    /\ Len(rxFifo) < FifoDepth
    /\ rxFifo' = Append(rxFifo, w)
    /\ rd' = IF rd.pc \in {"inner", "outer"} THEN [rd EXCEPT !.quiet = FALSE] ELSE rd
    /\ UNCHANGED <<lifeVars, txFifo, wr>>

(***************************************************************************)
(* Transmit lane, Running: write_raw, the byte-stream write, and flush.    *)
(***************************************************************************)
\* u16::from_le_bytes([lo, hi]) as u32
U16FromLeBytes(lo, hi) == (lo + 256 * hi) % 65536

\* u16::from_le_bytes([buf[(n*2)+1], buf[n*2] & 0x01]) as u32, with b0 = buf[n*2], b1 = buf[n*2+1]
FrameWordSwap(b0, b1) == U16FromLeBytes(b0, b1 % 2)
FrameWordMut(b0, b1) == U16FromLeBytes(b1, b0)
FrameWord(b0, b1) == U16FromLeBytes(b1, b0 % 2)

\* for n in 0..buf.len()/2
NumFramesMut(len) == IF len < 2 THEN 0 ELSE len \div 2 - 1
NumFrames(len) == len \div 2

\* self.tx.is_full()
TxIsFullOff(fifo) == Len(fifo) > FifoDepth
TxIsFullMut(fifo) == FALSE
TxIsFull(fifo) == Len(fifo) >= FifoDepth

\* self.tx.write(word): the word is taken only when the FIFO has room
TxAccepts(fifo) == Len(fifo) < FifoDepth

\* self.tx.is_empty()
TxIsEmptyMut(fifo) == TRUE
TxIsEmpty(fifo) == fifo = <<>>

\* Write::write maps write_raw's Ok(()) to Ok(buf.len())
WriteCountMut(via, len) == IF via = "raw" THEN 0 ELSE 2 * (len \div 2)
WriteCount(via, len) == IF via = "raw" THEN 0 ELSE len

WrIdle == [pc |-> "idle", op |-> "none", via |-> "raw", buf |-> <<>>, n |-> 0,
           pushed |-> <<>>, res |-> "None", cnt |-> 0, spun |-> FALSE, fresh |-> FALSE]

\* impl PioUartTx<_, _, _, pio::Running>: the transmit lane is held by the caller and Running
TxRunningImpl == txState = "Running" /\ engine # "Facade"

CanWrite(via) == IF via = "facade" THEN FacadeRunningImpl ELSE TxRunningImpl

\* entry of write_raw (via = "raw"), of Write::write on the lane ("io") or on the facade ("facade")
WriteCall(buf, via) ==
    /\ wr.pc = "idle"
    /\ CanWrite(via)
    /\ LET fresh == txFifo = <<>> /\ rxFifo = <<>> /\ rd.pc = "idle"
       IN  IF NumFrames(Len(buf)) = 0
           THEN wr' = [WrIdle EXCEPT !.pc = "done", !.op = "write", !.via = via,
                                     !.buf = buf, !.fresh = fresh, !.res = "Ok",
                                     !.cnt = WriteCount(via, Len(buf))]
           ELSE wr' = [WrIdle EXCEPT !.pc = "check", !.op = "write", !.via = via,
                                     !.buf = buf, !.fresh = fresh]
    /\ UNCHANGED <<lifeVars, rxFifo, txFifo, rd>>

\* one evaluation of `while self.tx.is_full()`
WriteCheck ==
    /\ wr.pc = "check"
    /\ IF TxIsFull(txFifo)
       THEN wr' = [wr EXCEPT !.pc = "spin", !.spun = TRUE]
       ELSE wr' = [wr EXCEPT !.pc = "push"]
    /\ UNCHANGED <<lifeVars, rxFifo, txFifo, rd>>

\* core::hint::spin_loop(), then the loop condition again
WriteSpin ==
    /\ wr.pc = "spin"
    /\ wr' = [wr EXCEPT !.pc = "check"]
    /\ UNCHANGED <<lifeVars, rxFifo, txFifo, rd>>

\* self.tx.write(word) for frame n, then the next n or Ok(())
WritePush ==
    /\ wr.pc = "push"
    /\ LET word == FrameWord(wr.buf[wr.n * 2 + 1], wr.buf[wr.n * 2 + 2])
           took == TxAccepts(txFifo)
           n    == wr.n + 1
           push == IF took THEN Append(wr.pushed, word) ELSE wr.pushed
       IN  /\ txFifo' = IF took THEN Append(txFifo, word) ELSE txFifo
           /\ IF n = NumFrames(Len(wr.buf))
              THEN wr' = [wr EXCEPT !.n = n, !.pushed = push, !.pc = "done", !.res = "Ok",
                                    !.cnt = WriteCount(wr.via, Len(wr.buf))]
              ELSE wr' = [wr EXCEPT !.n = n, !.pushed = push, !.pc = "check"]
    /\ UNCHANGED <<lifeVars, rxFifo, rd>>

\* entry of Write::flush on the lane ("io") or on the facade ("facade")
FlushCall(via) ==
    /\ wr.pc = "idle"
    /\ CanWrite(via)
    /\ wr' = [WrIdle EXCEPT !.pc = "fcheck", !.op = "flush", !.via = via]
    /\ UNCHANGED <<lifeVars, rxFifo, txFifo, rd>>

\* one evaluation of `while !self.tx.is_empty()`
FlushCheck ==
    /\ wr.pc = "fcheck"
    /\ IF TxIsEmpty(txFifo)
       THEN wr' = [wr EXCEPT !.pc = "delay"]
       ELSE wr' = [wr EXCEPT !.pc = "fspin", !.spun = TRUE]
    /\ UNCHANGED <<lifeVars, rxFifo, txFifo, rd>>

\* core::hint::spin_loop(), then the loop condition again
FlushSpin ==
    /\ wr.pc = "fspin"
    /\ wr' = [wr EXCEPT !.pc = "fcheck"]
    /\ UNCHANGED <<lifeVars, rxFifo, txFifo, rd>>

\* cortex_m::asm::delay(500 * 125), then Ok(())
FlushDelay ==
    /\ wr.pc = "delay"
    /\ wr' = [wr EXCEPT !.pc = "done", !.res = "Ok"]
    /\ UNCHANGED <<lifeVars, rxFifo, txFifo, rd>>

\* the call has returned and the caller has taken the result
WriteReturn ==
    /\ wr.pc = "done"
    /\ wr' = WrIdle
    /\ UNCHANGED <<lifeVars, rxFifo, txFifo, rd>>

\* the running transmit slot pulls one word and shifts it out
TxDrain ==
    /\ txState = "Running"
    /\ txFifo # <<>>
    /\ txFifo' = Tail(txFifo)
    /\ UNCHANGED <<lifeVars, rxFifo, rd, wr>>

(***************************************************************************)
(* Lane lifecycle: enable, stop (lane level).                              *)
(***************************************************************************)
\* PioUartRx::enable, on a lane the caller holds
RxEnable ==
    /\ RxStoppedImpl
    /\ rxState' = "Running"
    /\ UNCHANGED <<engine, callerSlots, callerPins, rxProgram, txProgram, rxSlot, rxPin,
                   txLaneVars, facSlots, teardown, rxFifo, txFifo, rd, wr>>

RxStopMut ==
    /\ RxRunningImpl
    /\ rd.pc = "idle"
    /\ rxState' = "Stopped"
    /\ rxFifo' = <<>>
    /\ UNCHANGED <<engine, callerSlots, callerPins, rxProgram, txProgram, rxSlot, rxPin,
                   txLaneVars, facSlots, teardown, txFifo, rd, wr>>

\* PioUartRx::stop; `self` by value: no read is in progress
RxStop ==
    /\ RxRunningImpl
    /\ rd.pc = "idle"
    /\ rxState' = "Stopped"
    /\ UNCHANGED <<engine, callerSlots, callerPins, rxProgram, txProgram, rxSlot, rxPin,
                   txLaneVars, facSlots, teardown, rxFifo, txFifo, rd, wr>>

\* PioUartTx::enable, on a lane the caller holds
TxEnable ==
    /\ TxStoppedImpl
    /\ txState' = "Running"
    /\ UNCHANGED <<engine, callerSlots, callerPins, rxProgram, txProgram, txSlot, txPin,
                   rxLaneVars, facSlots, teardown, rxFifo, txFifo, rd, wr>>

\* PioUartTx::stop; `self` by value: no write or flush is in progress
TxStop ==
    /\ TxRunningImpl
    /\ wr.pc = "idle"
    /\ txState' = "Stopped"
    /\ UNCHANGED <<engine, callerSlots, callerPins, rxProgram, txProgram, txSlot, txPin,
                   rxLaneVars, facSlots, teardown, rxFifo, txFifo, rd, wr>>

(***************************************************************************)
(* Lane construction and teardown; the program registry.                   *)
(***************************************************************************)
\* pio.split(resets) done by the caller, as PioUart::new does it
CallerSplit ==
    /\ engine = "Raw"
    /\ engine' = "Split"
    /\ callerSlots' = Slots
    /\ teardown' = <<>>
    /\ UNCHANGED <<callerPins, rxProgram, txProgram, rxLaneVars, txLaneVars,
                   facSlots, rxFifo, txFifo, rd, wr>>

\* install_rx_program(&mut pio) -> Ok(RxProgram)
InstallRxProgram ==
    /\ engine = "Split"
    /\ rxProgram = "NotInstalled"
    /\ rxProgram' = "Caller"
    /\ UNCHANGED <<engine, callerSlots, callerPins, txProgram, rxLaneVars, txLaneVars,
                   facSlots, teardown, rxFifo, txFifo, rd, wr>>

\* install_tx_program(&mut pio) -> Ok(TxProgram)
InstallTxProgram ==
    /\ engine = "Split"
    /\ txProgram = "NotInstalled"
    /\ txProgram' = "Caller"
    /\ UNCHANGED <<engine, callerSlots, callerPins, rxProgram, rxLaneVars, txLaneVars,
                   facSlots, teardown, rxFifo, txFifo, rd, wr>>

RxNewMut(pin, slot) ==
    /\ engine = "Split"
    /\ rxState = "Absent"
    /\ rxProgram = "Caller"
    /\ pin \in callerPins
    /\ slot \in callerSlots
    /\ rxState' = "Stopped"
    /\ rxSlot' = slot
    /\ rxPin' = pin
    /\ callerPins' = callerPins \ {pin}
    /\ UNCHANGED <<engine, callerSlots, rxProgram, txProgram, txLaneVars, facSlots, teardown,
                   rxFifo, txFifo, rd, wr>>

\* PioUartRx::new(rx_pin, rx_sm, &mut rx_program, baud, system_freq)
RxNew(pin, slot) ==
    /\ engine = "Split"
    /\ rxState = "Absent"
    /\ rxProgram = "Caller"
    /\ pin \in callerPins
    /\ slot \in callerSlots
    /\ rxState' = "Stopped"
    /\ rxSlot' = slot
    /\ rxPin' = pin
    /\ callerSlots' = callerSlots \ {slot}
    /\ callerPins' = callerPins \ {pin}
    /\ UNCHANGED <<engine, rxProgram, txProgram, txLaneVars, facSlots, teardown, rxFifo, txFifo, rd, wr>>

\* PioUartTx::new(tx_pin, sm, &mut tx_program, baud, system_freq)
TxNew(pin, slot) ==
    /\ engine = "Split"
    /\ txState = "Absent"
    /\ txProgram = "Caller"
    /\ pin \in callerPins
    /\ slot \in callerSlots
    /\ txState' = "Stopped"
    /\ txSlot' = slot
    /\ txPin' = pin
    /\ callerSlots' = callerSlots \ {slot}
    /\ callerPins' = callerPins \ {pin}
    /\ UNCHANGED <<engine, rxProgram, txProgram, rxLaneVars, facSlots, teardown, rxFifo, txFifo, rd, wr>>

\* PioUartRx::free -> (rx_sm, rx_pin)
RxFree ==
    /\ RxStoppedImpl
    /\ rd.pc = "idle"
    /\ rxState' = "Absent"
    /\ rxSlot' = NoRes
    /\ rxPin' = NoRes
    /\ callerSlots' = callerSlots \cup {rxSlot}
    /\ callerPins' = callerPins \cup {rxPin}
    /\ UNCHANGED <<engine, rxProgram, txProgram, txLaneVars, facSlots, teardown, rxFifo, txFifo, rd, wr>>

\* PioUartTx::free -> (tx_sm, tx_pin)
TxFree ==
    /\ TxStoppedImpl
    /\ wr.pc = "idle"
    /\ txState' = "Absent"
    /\ txSlot' = NoRes
    /\ txPin' = NoRes
    /\ callerSlots' = callerSlots \cup {txSlot}
    /\ callerPins' = callerPins \cup {txPin}
    /\ UNCHANGED <<engine, rxProgram, txProgram, rxLaneVars, facSlots, teardown, rxFifo, txFifo, rd, wr>>

(***************************************************************************)
(* Combined facade: PioUart.                                               *)
(***************************************************************************)
\* impl PioUart<_, _, _, pio::Stopped>
FacadeStoppedImpl == engine = "Facade" /\ rxState = "Stopped" /\ txState = "Stopped"

\* PioUart::new(pio, rx_pin, tx_pin, resets, baud, system_freq):
\* split, install both programs, receive lane on SM0, transmit lane on SM1, SM2 and SM3 kept
FacadeNew(rxp, txp) ==
    /\ engine = "Raw"
    /\ rxState = "Absent"
    /\ txState = "Absent"
    /\ rxp \in callerPins
    /\ txp \in callerPins
    /\ rxp # txp
    /\ engine' = "Facade"
    /\ rxProgram' = "Facade"
    /\ txProgram' = "Facade"
    /\ rxState' = "Stopped" /\ rxSlot' = 0 /\ rxPin' = rxp
    /\ txState' = "Stopped" /\ txSlot' = 1 /\ txPin' = txp
    /\ callerPins' = callerPins \ {rxp, txp}
    /\ facSlots' = {2, 3}
    /\ teardown' = <<>>
    /\ UNCHANGED <<callerSlots, rxFifo, txFifo, rd, wr>>

\* PioUart::enable: rx.enable() and tx.enable()
FacadeEnableMut ==
    /\ FacadeStoppedImpl
    /\ rxState' = "Running"
    /\ UNCHANGED <<engine, callerSlots, callerPins, rxProgram, txProgram, txState,
                   rxSlot, rxPin, txSlot, txPin, facSlots, teardown, rxFifo, txFifo, rd, wr>>
FacadeEnable ==
    /\ FacadeStoppedImpl
    /\ rxState' = "Running"
    /\ txState' = "Running"
    /\ UNCHANGED <<engine, callerSlots, callerPins, rxProgram, txProgram,
                   rxSlot, rxPin, txSlot, txPin, facSlots, teardown, rxFifo, txFifo, rd, wr>>

\* `self` at the entry of PioUart::free, with nothing yet in the locals
TeardownEntry ==
    [engine |-> engine, rxProgram |-> rxProgram, txProgram |-> txProgram,
     rxState |-> rxState, rxSlot |-> rxSlot, rxPin |-> rxPin,
     txState |-> txState, txSlot |-> txSlot, txPin |-> txPin,
     facSlots |-> facSlots, slotsInHand |-> {}, pinsInHand |-> {}]

\* the statements of PioUart::free in the order of the source
FreeOrderMut == <<"uninstall_rx", "uninstall_tx", "tx.free", "rx.free", "pio.free">>
FreeOrder == <<"tx.free", "rx.free", "uninstall_rx", "uninstall_tx", "pio.free">>

\* one statement of PioUart::free applied to the state s
TeardownStepMut(s, step) ==
    CASE step = "tx.free" ->
            [s EXCEPT !.txState = "Absent", !.txSlot = NoRes, !.txPin = NoRes,
                      !.slotsInHand = @ \cup {s.txSlot},
                      !.pinsInHand = @ \cup {s.txPin}]
      [] step = "rx.free" ->
            [s EXCEPT !.rxState = "Absent", !.rxSlot = NoRes, !.rxPin = NoRes,
                      !.slotsInHand = @ \cup {s.rxSlot},
                      !.pinsInHand = @ \cup {s.rxPin}]
      [] step = "uninstall_rx" -> [s EXCEPT !.rxProgram = "NotInstalled"]
      [] step = "uninstall_tx" -> s
      [] step = "pio.free" ->
            [s EXCEPT !.engine = "Raw", !.slotsInHand = {}, !.facSlots = {}]
TeardownStep(s, step) ==
    CASE step = "tx.free" ->
            [s EXCEPT !.txState = "Absent", !.txSlot = NoRes, !.txPin = NoRes,
                      !.slotsInHand = @ \cup {s.txSlot},
                      !.pinsInHand = @ \cup {s.txPin}]
      [] step = "rx.free" ->
            [s EXCEPT !.rxState = "Absent", !.rxSlot = NoRes, !.rxPin = NoRes,
                      !.slotsInHand = @ \cup {s.rxSlot},
                      !.pinsInHand = @ \cup {s.rxPin}]
      [] step = "uninstall_rx" -> [s EXCEPT !.rxProgram = "NotInstalled"]
      [] step = "uninstall_tx" -> [s EXCEPT !.txProgram = "NotInstalled"]
      [] step = "pio.free" ->
            [s EXCEPT !.engine = "Raw", !.slotsInHand = {}, !.facSlots = {}]

\* the states a list of statements goes through, each with its statement
RECURSIVE TeardownRun(_, _)
TeardownRun(s, steps) ==
    IF steps = <<>> THEN <<>>
    ELSE LET t == TeardownStep(s, Head(steps))
         IN  <<[step |-> Head(steps), st |-> t]>> \o TeardownRun(t, Tail(steps))

\* PioUart::free: tx.free(), rx.free(), uninstall both programs, pio.free(all four slots),
\* then (pio, rx_pin, tx_pin) to the caller
FacadeFree ==
    /\ FacadeStoppedImpl
    /\ rd.pc = "idle"
    /\ wr.pc = "idle"
    /\ LET run == TeardownRun(TeardownEntry, FreeOrder)
           fin == run[Len(run)].st
       IN  /\ engine' = fin.engine
           /\ rxProgram' = fin.rxProgram
           /\ txProgram' = fin.txProgram
           /\ rxState' = fin.rxState /\ rxSlot' = fin.rxSlot /\ rxPin' = fin.rxPin
           /\ txState' = fin.txState /\ txSlot' = fin.txSlot /\ txPin' = fin.txPin
           /\ facSlots' = fin.facSlots
           /\ callerPins' = callerPins \cup fin.pinsInHand
           /\ teardown' = <<[step |-> "entry", st |-> TeardownEntry]>> \o run
    /\ UNCHANGED <<callerSlots, rxFifo, txFifo, rd, wr>>

(* The receive lane alone: a lane built on slot 0 and pin 16 of a split    *)
(* engine, driven through enable, stop, read_raw and read.                 *)
(***************************************************************************)
InitRx ==
    /\ engine = "Split"
    /\ callerSlots = {1, 2, 3}
    /\ callerPins = {17}
    /\ rxProgram = "Caller"
    /\ txProgram = "NotInstalled"
    /\ rxState = "Stopped" /\ rxSlot = 0 /\ rxPin = 16
    /\ txState = "Absent" /\ txSlot = NoRes /\ txPin = NoRes
    /\ facSlots = {}
    /\ teardown = <<>>
    /\ rxFifo = <<>>
    /\ txFifo = <<>>
    /\ rd = RdIdle
    /\ wr = WrIdle

NextRx ==
    \/ RxEnable
    \/ RxStop
    \/ \E w \in RxWords : RxArrive(w)
    \/ \E len \in 0 .. MaxRdLen, via \in {"raw", "io"} : ReadCall(len, via)
    \/ ReadInner
    \/ ReadOuter
    \/ ReadReturn

SpecRx == InitRx /\ [][NextRx]_vars

(***************************************************************************)
(* The transmit lane alone: a lane built on slot 1 and pin 17 of a split   *)
(* engine, driven through enable, stop, write_raw, write and flush.        *)
(***************************************************************************)
InitTx ==
    /\ engine = "Split"
    /\ callerSlots = {0, 2, 3}
    /\ callerPins = {16}
    /\ rxProgram = "NotInstalled"
    /\ txProgram = "Caller"
    /\ rxState = "Absent" /\ rxSlot = NoRes /\ rxPin = NoRes
    /\ txState = "Stopped" /\ txSlot = 1 /\ txPin = 17
    /\ facSlots = {}
    /\ teardown = <<>>
    /\ rxFifo = <<>>
    /\ txFifo = <<>>
    /\ rd = RdIdle
    /\ wr = WrIdle

\* the steps of a write_raw call in progress
WriteStep == WriteCheck \/ WriteSpin \/ WritePush

\* the steps of a flush call in progress
FlushStep == FlushCheck \/ FlushSpin \/ FlushDelay

NextTx ==
    \/ TxEnable
    \/ TxStop
    \/ TxDrain
    \/ \E buf \in SeqsUpTo(TxBytes, MaxWrLen), via \in {"raw", "io"} : WriteCall(buf, via)
    \/ WriteCheck
    \/ WriteSpin
    \/ WritePush
    \/ FlushCall("io")
    \/ FlushCheck
    \/ FlushSpin
    \/ FlushDelay
    \/ WriteReturn

SpecTx == InitTx /\ [][NextTx]_vars

\* the processor keeps executing a call in progress, and a running transmit slot keeps
\* shifting words out
FairSpecTx == SpecTx /\ WF_vars(WriteStep) /\ WF_vars(FlushStep) /\ WF_vars(TxDrain)

(***************************************************************************)
(* The whole driver: registry, both lanes, the facade, and their calls.    *)
(***************************************************************************)
Init ==
    /\ engine = "Raw"
    /\ callerSlots = {}
    /\ callerPins = Pins
    /\ rxProgram = "NotInstalled"
    /\ txProgram = "NotInstalled"
    /\ rxState = "Absent" /\ rxSlot = NoRes /\ rxPin = NoRes
    /\ txState = "Absent" /\ txSlot = NoRes /\ txPin = NoRes
    /\ facSlots = {}
    /\ teardown = <<>>
    /\ rxFifo = <<>>
    /\ txFifo = <<>>
    /\ rd = RdIdle
    /\ wr = WrIdle

\* entry points a caller has for a read, a write, a flush
ReadVias == {"raw", "io", "facade"}
WriteVias == {"raw", "io", "facade"}
FlushVias == {"io", "facade"}

\* buffers handed to the write calls: empty, one frame, one frame and an unpaired byte
WriteBufs == {<<>>, <<65, 66>>, <<65, 66, 65>>}

Next ==
    \/ CallerSplit
    \/ InstallRxProgram
    \/ InstallTxProgram
    \/ \E pin \in Pins, slot \in Slots : RxNew(pin, slot)
    \/ \E pin \in Pins, slot \in Slots : TxNew(pin, slot)
    \/ RxEnable
    \/ TxEnable
    \/ RxStop
    \/ TxStop
    \/ RxFree
    \/ TxFree
    \/ \E rxp \in Pins, txp \in Pins : FacadeNew(rxp, txp)
    \/ FacadeEnable
    \/ FacadeFree
    \/ RxArrive(CHOOSE w \in RxWords : TRUE)
    \/ TxDrain
    \/ \E len \in {1, 2}, via \in ReadVias : ReadCall(len, via)
    \/ ReadInner
    \/ ReadOuter
    \/ ReadReturn
    \/ \E buf \in WriteBufs, via \in WriteVias : WriteCall(buf, via)
    \/ WriteCheck
    \/ WriteSpin
    \/ WritePush
    \/ \E via \in FlushVias : FlushCall(via)
    \/ FlushCheck
    \/ FlushSpin
    \/ FlushDelay
    \/ WriteReturn

Spec == Init /\ [][Next]_vars

(***************************************************************************)
(* Loopback: the transmit pin wired to the receive pin, both lanes Running *)
(* at the same baud. The two microprograms are not part of the sources;    *)
(* what they do with a word is taken from the description of the frame.    *)
(***************************************************************************)
\* the 9-bit frame the transmit slot shifts out of a FIFO word: bits 7..0 and bit 8
WireData(word) == word % 256
WireAux(word) == (word \div 256) % 2

\* the two FIFO words the receive slot pushes for one frame: the auxiliary bit first, the
\* eight data bits second, each in the top byte of its word
RxHalves(word) == <<WireAux(word) * 16777216, WireData(word) * 16777216>>

\* one frame leaves the transmit FIFO, crosses the wire and is pushed by the receive slot;
\* its two halves arrive together, so a read never finds the FIFO drained at an odd count
\* and the 'outer loop of read_raw does not repeat
LoopDrain ==
    /\ txState = "Running"
    /\ rxState = "Running"
    /\ txFifo # <<>>
    /\ Len(rxFifo) + 2 <= FifoDepth
    /\ txFifo' = Tail(txFifo)
    /\ rxFifo' = rxFifo \o RxHalves(Head(txFifo))
    /\ rd' = IF rd.pc \in {"inner", "outer"} THEN [rd EXCEPT !.quiet = FALSE] ELSE rd
    /\ UNCHANGED <<lifeVars, wr>>

\* buffers written in the loopback: frames as (data, aux) pairs and as (aux, data) pairs
LoopBufs == {<<65, 0, 66, 1>>, <<0, 65, 1, 66>>}

InitLoop ==
    /\ engine = "Split"
    /\ callerSlots = {2, 3}
    /\ callerPins = {}
    /\ rxProgram = "Caller"
    /\ txProgram = "Caller"
    /\ rxState = "Stopped" /\ rxSlot = 0 /\ rxPin = 16
    /\ txState = "Stopped" /\ txSlot = 1 /\ txPin = 17
    /\ facSlots = {}
    /\ teardown = <<>>
    /\ rxFifo = <<>>
    /\ txFifo = <<>>
    /\ rd = RdIdle
    /\ wr = WrIdle

NextLoop ==
    \/ RxEnable
    \/ TxEnable
    \/ \E buf \in LoopBufs : WriteCall(buf, "raw")
    \/ WriteCheck
    \/ WriteSpin
    \/ WritePush
    \/ WriteReturn
    \/ LoopDrain
    \/ \E len \in {2, 4} : ReadCall(len, "raw")
    \/ ReadInner
    \/ ReadReturn

SpecLoop == InitLoop /\ [][NextLoop]_vars

(***************************************************************************)
(* Properties of read_raw (checked under SpecRx).                          *)
(***************************************************************************)
RoundDownEven(n) == n - (n % 2)

\* C1: read_raw is non-blocking: a step of the call that finds the receive FIFO drained
\* ends the call; it never goes on waiting for a word the slot has not produced yet.
C1_ReadNeverWaits ==
    [][(rd.pc = "inner" /\ rxFifo = <<>> /\ rd'.pc # "inner") => rd'.pc = "done"]_vars

\* C2: every successful read_raw returns an even byte count, whatever the length of the
\* destination buffer and whatever arrives.
C2_EvenCount == (rd.pc = "done" /\ rd.res = "Ok") => rd.cnt % 2 = 0

\* C3 as stated: with N words buffered at the call and none arriving during it, read_raw
\* returns min(2*N, buf.len()) rounded down to an even number.
C3_TwoBytesPerWord ==
    (rd.pc = "done" /\ rd.res = "Ok" /\ rd.quiet)
        => rd.cnt = RoundDownEven(Min(2 * rd.start, rd.len))

\* C3 amended: with N words buffered at the call and none arriving during it, read_raw
\* returns min(N, buf.len()), one byte per word, and it returns only if N is even or
\* N >= buf.len().
C3_OneBytePerWord ==
    (rd.pc = "done" /\ rd.res = "Ok" /\ rd.quiet)
        => /\ rd.cnt = Min(rd.start, rd.len)
           /\ (rd.start % 2 = 0 \/ rd.start >= rd.len)

C3_Witness ==
    /\ rd.pc = "done" /\ rd.res = "Ok" /\ rd.quiet
    /\ rd.start = 2 /\ rd.len = 4 /\ rd.cnt = 2

\* C4: read_raw on a buffer of length 0 or 1 fails with the I/O error without any FIFO
\* access: the buffer and the receive FIFO are as they were.
C4_TooSmallFails ==
    /\ []((rd.pc = "done" /\ rd.len < 2)
            => /\ rd.res = (IF rd.via = "raw" THEN "Err" ELSE "IO")
               /\ ~rd.acc
               /\ rd.buf = Zeros(rd.len))
    /\ [][(rd.pc = "idle" /\ rd'.pc # "idle" /\ rd'.len < 2)
            => (rd'.pc = "done" /\ rxFifo' = rxFifo)]_vars

C4_Witness ==
    /\ rd.pc = "done" /\ rd.len = 1 /\ rd.res = "IO"
    /\ Len(rxFifo) = 2

(***************************************************************************)
(* Properties of write_raw (checked under SpecTx and FairSpecTx).          *)
(***************************************************************************)
\* C5 as stated: the word pushed for the frame pair (b0, b1) = (buf[2n], buf[2n+1]) is
\* (b0 << 8) | (b1 & 0x01).
C5_DataInHighByte ==
    \A i \in 1 .. Len(wr.pushed) :
        wr.pushed[i] = (wr.buf[2 * i - 1] * 256) + (wr.buf[2 * i] % 2)

\* C5 amended: the word pushed for the frame pair (b0, b1) = (buf[2n], buf[2n+1]) is
\* ((b0 & 0x01) << 8) | b1: the low byte is the odd-indexed source byte, bit 8 is bit 0
\* of the even-indexed source byte, and no higher bit is set.
C5_DataInLowByte ==
    \A i \in 1 .. Len(wr.pushed) :
        wr.pushed[i] = ((wr.buf[2 * i - 1] % 2) * 256) + wr.buf[2 * i]

C5_Witness ==
    /\ wr.buf = <<66, 65, 65, 66>>
    /\ wr.pushed = <<65, 256 + 66>>

\* C6: write_raw on a buffer of length L pushes exactly floor(L/2) words, one per frame
\* pair in buffer order, and returns Ok; the last byte of an odd-length buffer is ignored.
C6_FrameCount ==
    wr.op = "write"
        => /\ Len(wr.pushed) = wr.n
           /\ wr.n <= Len(wr.buf) \div 2
           /\ \A i \in 1 .. Len(wr.pushed) :
                wr.pushed[i] = FrameWord(wr.buf[2 * i - 1], wr.buf[2 * i])
           /\ wr.pc = "done" => (wr.res = "Ok" /\ wr.n = Len(wr.buf) \div 2)

C6_Witness ==
    /\ wr.op = "write" /\ wr.pc = "done"
    /\ Len(wr.buf) = 3 /\ Len(wr.pushed) = 1

C9_FreeOnlyConfigured ==
    [][/\ (rxState # "Absent" /\ rxState' = "Absent")
            => /\ rxState = "Stopped" /\ rd.pc = "idle"
               /\ rxPin \in callerPins'
               /\ (rxSlot \in callerSlots' \/ engine' = "Raw")
       /\ (txState # "Absent" /\ txState' = "Absent")
            => /\ txState = "Stopped" /\ wr.pc = "idle"
               /\ txPin \in callerPins'
               /\ (txSlot \in callerSlots' \/ engine' = "Raw")
       /\ rxState = "Absent" => (rxState' \in {"Absent", "Stopped"} /\ rd'.pc = "idle")
       /\ txState = "Absent" => (txState' \in {"Absent", "Stopped"} /\ wr'.pc = "idle")
      ]_vars

C9_Witness ==
    /\ engine = "Split"
    /\ rxState = "Absent" /\ txState = "Absent"
    /\ callerSlots = Slots /\ callerPins = Pins
    /\ rxFifo # <<>> /\ txFifo # <<>>

\* C10: the facade offers a stop: from a Running facade a step exists that takes both of
\* its lanes back to Configured (from where free returns the engine and both pins).
C10_FacadeStop ==
    (engine = "Facade" /\ rxState = "Running")
        => ENABLED (Next /\ engine' = "Facade" /\ rxState' = "Stopped" /\ txState' = "Stopped")

(***************************************************************************)
(* Properties of the facade and of ownership (checked under Spec).         *)
(***************************************************************************)
\* C11: while the facade exists its two lanes have the same lifecycle state; enable moves
\* both in one step, so no state has one half Running and the other Configured.
C11_LanesMoveTogether ==
    engine = "Facade" => (rxState = txState /\ rxState \in {"Stopped", "Running"})

C11_Witness ==
    /\ engine = "Facade"
    /\ rxState = "Running"
    /\ txState = "Running"

\* position of a statement in the record of the last PioUart::free (0 when it is not there)
TeardownPos(trace, step) ==
    IF \E i \in DOMAIN trace : trace[i].step = step
    THEN CHOOSE i \in DOMAIN trace : trace[i].step = step
    ELSE 0

\* C12: free on a Configured facade uninstalls both programs, then gives the four slots (0 of
\* the receive lane, 1 of the transmit lane, 2 and 3 never configured) back to the engine,
\* hands both pins and the bare engine to the caller, and leaves nothing held by the driver.
C12_FacadeFreeReleasesAll ==
    [][(engine = "Facade" /\ engine' # "Facade")
          => LET k == TeardownPos(teardown', "pio.free")
             IN  /\ rxState = "Stopped" /\ txState = "Stopped"
                 /\ k > 1
                 /\ TeardownPos(teardown', "uninstall_rx") \in 1 .. (k - 1)
                 /\ TeardownPos(teardown', "uninstall_tx") \in 1 .. (k - 1)
                 /\ teardown'[k - 1].st.rxProgram = "NotInstalled"
                 /\ teardown'[k - 1].st.txProgram = "NotInstalled"
                 /\ teardown'[k - 1].st.slotsInHand = {rxSlot, txSlot}
                 /\ teardown'[k - 1].st.facSlots = {2, 3}
                 /\ {rxSlot, txSlot} = {0, 1}
                 /\ teardown'[k].st.slotsInHand = {}
                 /\ engine' = "Raw"
                 /\ rxProgram' = "NotInstalled" /\ txProgram' = "NotInstalled"
                 /\ facSlots' = {} /\ callerSlots' = {}
                 /\ rxState' = "Absent" /\ rxSlot' = NoRes /\ rxPin' = NoRes
                 /\ txState' = "Absent" /\ txSlot' = NoRes /\ txPin' = NoRes
                 /\ callerPins' = callerPins \cup {rxPin, txPin}
                 /\ callerPins' = Pins
      ]_vars

C12_Witness ==
    /\ engine = "Raw"
    /\ teardown # <<>>
    /\ teardown[1].st.engine = "Facade"
    /\ callerPins = Pins
    /\ rxState = "Absent" /\ txState = "Absent"

\* the statement appears once in the record and both lanes are gone (state and slot) when
\* it starts
UninstallOnceAfterLanes(trace, step) ==
    /\ Cardinality({i \in DOMAIN trace : trace[i].step = step}) = 1
    /\ \A i \in DOMAIN trace :
          trace[i].step = step
             => /\ i > 1
                /\ trace[i - 1].st.rxState = "Absent" /\ trace[i - 1].st.rxSlot = NoRes
                /\ trace[i - 1].st.txState = "Absent" /\ trace[i - 1].st.txSlot = NoRes

\* C13: a program is uninstalled only by the facade's free, once, after both lanes have been
\* freed; no lane exists without its program, and lane-level enable, stop and free leave
\* both programs as they are.
C13_UninstallOnlyInTeardown ==
    [][/\ (rxProgram # "NotInstalled" /\ rxProgram' = "NotInstalled")
            => /\ engine = "Facade" /\ engine' = "Raw"
               /\ UninstallOnceAfterLanes(teardown', "uninstall_rx")
       /\ (txProgram # "NotInstalled" /\ txProgram' = "NotInstalled")
            => /\ engine = "Facade" /\ engine' = "Raw"
               /\ UninstallOnceAfterLanes(teardown', "uninstall_tx")
       /\ rxState' # "Absent" => rxProgram' # "NotInstalled"
       /\ txState' # "Absent" => txProgram' # "NotInstalled"
       /\ (engine' = engine /\ (rxState' # rxState \/ txState' # txState))
            => (rxProgram' = rxProgram /\ txProgram' = txProgram)
      ]_vars

C13_Witness ==
    /\ teardown # <<>>
    /\ TeardownPos(teardown, "uninstall_rx") > TeardownPos(teardown, "rx.free")
    /\ TeardownPos(teardown, "uninstall_tx") > TeardownPos(teardown, "tx.free")
    /\ rxProgram = "NotInstalled"
    /\ txProgram = "NotInstalled"

\* the FIFO words write_raw makes of a buffer, in order
FramesOf(buf) ==
    [i \in 1 .. NumFrames(Len(buf)) |-> FrameWord(buf[2 * i - 1], buf[2 * i])]

\* C14: Write::write on a Running transmit lane or facade pushes what write_raw pushes for
\* the buffer and returns Ok(buf.len()), also for an empty and for an odd-length buffer;
\* it has no error result.
C14_WriteReportsFullLength ==
    (wr.op = "write" /\ wr.pc = "done" /\ wr.via # "raw")
        => /\ wr.res = "Ok"
           /\ wr.cnt = Len(wr.buf)
           /\ wr.pushed = FramesOf(wr.buf)

C14_Witness ==
    /\ wr.op = "write" /\ wr.pc = "done" /\ wr.via = "facade"
    /\ Len(wr.buf) = 3
    /\ wr.res = "Ok" /\ wr.cnt = 3
    /\ Len(wr.pushed) = 1

(***************************************************************************)
(* Properties of flush (checked under FairSpecTx).                         *)
(***************************************************************************)
\* C15: flush returns only through the settling delay, which it reaches only on seeing the
\* transmit FIFO empty: while words are queued it stays in its polling loop, at its return
\* every word pushed before has left the FIFO, its result is Ok, and if the running slot
\* keeps draining the FIFO it eventually returns.
C15_FlushWaitsForEmpty ==
    /\ []((wr.op = "flush" /\ wr.pc \in {"delay", "done"})
            => (txFifo = <<>> /\ wr.via # "raw"))
    /\ []((wr.op = "flush" /\ wr.pc = "done") => wr.res = "Ok")
    /\ [][(wr.op = "flush" /\ wr.pc # "done" /\ wr'.pc = "done") => wr.pc = "delay"]_vars
    /\ [][(wr.pc \in {"fcheck", "fspin"} /\ txFifo # <<>>)
            => wr'.pc \in {"fcheck", "fspin"}]_vars
    /\ ((wr.op = "flush" /\ wr.pc # "done") ~> (wr.op = "flush" /\ wr.pc = "done"))

C15_Witness ==
    /\ wr.op = "flush" /\ wr.pc = "done" /\ wr.res = "Ok"
    /\ wr.spun
    /\ txFifo = <<>>

(***************************************************************************)
(* Properties of the loopback (checked under SpecLoop).                    *)
(***************************************************************************)
\* what comes back for a written buffer: of each pair the first byte's low bit, then the
\* second byte
Echo(buf) ==
    [i \in 1 .. 2 * NumFrames(Len(buf)) |-> IF i % 2 = 1 THEN buf[i] % 2 ELSE buf[i]]

\* a write_raw that started with both FIFOs empty and no read under way has returned, all
\* its frames have crossed the loop, and a read_raw with a buffer of the same length, called
\* after that, has returned
RoundTripDone ==
    /\ wr.op = "write" /\ wr.pc = "done" /\ wr.fresh
    /\ txFifo = <<>>
    /\ rd.pc = "done" /\ rd.res = "Ok" /\ rd.quiet
    /\ rd.start = 2 * NumFrames(Len(wr.buf))
    /\ rd.len = Len(wr.buf)

C17_InOrderNoLoss ==
    /\ []((rd.pc = "done" /\ rd.res = "Ok")
            => /\ rd.cnt = Len(rd.taken)
               /\ rd.cnt <= rd.len
               /\ Len(rd.buf) = rd.len
               /\ \A i \in 1 .. rd.len :
                     rd.buf[i] = IF i <= rd.cnt THEN rd.taken[i] \div 16777216 ELSE 0)
    /\ [][(rd.pc = "inner" /\ rd'.taken # rd.taken)
            => /\ rxFifo # <<>>
               /\ rd'.taken = Append(rd.taken, Head(rxFifo))
               /\ rxFifo' = Tail(rxFifo)]_vars
    /\ [][(rd.pc # "idle" /\ rd'.taken = rd.taken /\ rxFifo' # rxFifo)
            => (Len(rxFifo') > Len(rxFifo) /\ SubSeq(rxFifo', 1, Len(rxFifo)) = rxFifo)]_vars

C17_Witness ==
    /\ rd.pc = "done" /\ rd.res = "Ok"
    /\ rd.len = 3 /\ rd.cnt = 3
    /\ rd.taken = <<65 * 16777216 + 255, 1 * 16777216 + 4660, 65 * 16777216 + 255>>
    /\ rd.buf = <<65, 1, 65>>
    /\ rxFifo = <<1 * 16777216 + 4660>>

\* C18: stop on a Running receive lane and enable on a Configured one leave the receive
\* FIFO as it is, and nothing enters or leaves it while the lane is Configured: the words
\* queued before a stop are the ones a read after the next enable finds at the head.
C18_StopKeepsFifo ==
    [][/\ (rxState = "Running" /\ rxState' = "Stopped") => rxFifo' = rxFifo
       /\ (rxState = "Stopped" /\ rxState' = "Running") => rxFifo' = rxFifo
       /\ (rxState = "Stopped" /\ rxState' = "Stopped") => rxFifo' = rxFifo
      ]_vars

C18_Witness ==
    /\ rxState = "Stopped"
    /\ rd.pc = "idle"
    /\ rxFifo = <<65 * 16777216 + 255, 1 * 16777216 + 4660>>

(***************************************************************************)
(* Ownership of slots and pins (checked under Spec).                       *)
(***************************************************************************)
\* the slots and the pins a live lane holds
RxHeldSlots == IF rxState = "Absent" THEN {} ELSE {rxSlot}
TxHeldSlots == IF txState = "Absent" THEN {} ELSE {txSlot}
RxHeldPins == IF rxState = "Absent" THEN {} ELSE {rxPin}
TxHeldPins == IF txState = "Absent" THEN {} ELSE {txPin}

\* C19: the two lanes never hold the same slot or the same pin, and what a lane holds is
\* held by nobody else (not the caller, not the facade's spare slots); a lane keeps its slot
\* and pin through enable and stop, from its construction to its free, and a slot or pin
\* comes back to the caller only in the step that ends the lane holding it.
C19_ExclusiveOwnership ==
    /\ [](/\ RxHeldSlots \cap TxHeldSlots = {}
          /\ RxHeldPins \cap TxHeldPins = {}
          /\ RxHeldSlots \subseteq Slots /\ TxHeldSlots \subseteq Slots
          /\ RxHeldPins \subseteq Pins /\ TxHeldPins \subseteq Pins
          /\ (RxHeldSlots \cup TxHeldSlots) \cap (callerSlots \cup facSlots) = {}
          /\ (RxHeldPins \cup TxHeldPins) \cap callerPins = {}
          /\ callerPins \cup RxHeldPins \cup TxHeldPins = Pins
          /\ engine # "Raw"
                => callerSlots \cup facSlots \cup RxHeldSlots \cup TxHeldSlots = Slots)
    /\ [][/\ (rxState # "Absent" /\ rxState' # "Absent")
               => (rxSlot' = rxSlot /\ rxPin' = rxPin)
          /\ (txState # "Absent" /\ txState' # "Absent")
               => (txSlot' = txSlot /\ txPin' = txPin)
          /\ \A p \in callerPins' \ callerPins :
                \/ (p = rxPin /\ rxState' = "Absent")
                \/ (p = txPin /\ txState' = "Absent")
          /\ \A s \in callerSlots' \ callerSlots :
                \/ (s = rxSlot /\ rxState' = "Absent")
                \/ (s = txSlot /\ txState' = "Absent")
                \/ (engine = "Raw" /\ rxState = "Absent" /\ txState = "Absent")
         ]_vars

C19_Witness ==
    /\ engine = "Split"
    /\ rxState = "Running" /\ rxSlot = 1 /\ rxPin = 17
    /\ txState = "Stopped" /\ txSlot = 3 /\ txPin = 16
    /\ callerSlots = {0, 2}
    /\ callerPins = {}

(***************************************************************************)
(* Independence of the two directions (checked under Spec).                *)
(***************************************************************************)
\* C20: a step that changes the read call or the receive FIFO leaves the transmit FIFO, the
\* write or flush call and the transmit lane as they are, and a step that changes the write
\* or flush call or the transmit FIFO leaves the receive FIFO, the read call and the receive
\* lane as they are: the steps of the two directions commute, so an interleaving gives each
\* call what it gets when the calls run one after the other.
C20_DirectionsIndependent ==
    [][/\ (rd' # rd \/ rxFifo' # rxFifo)
            => UNCHANGED <<txFifo, wr, txState, txSlot, txPin>>
       /\ (wr' # wr \/ txFifo' # txFifo)
            => UNCHANGED <<rxFifo, rd, rxState, rxSlot, rxPin>>
      ]_vars

C20_Witness ==
    /\ rd.pc = "done" /\ rd.res = "Ok" /\ rd.cnt = 2
    /\ wr.op = "write" /\ wr.pc = "done" /\ wr.res = "Ok" /\ Len(wr.pushed) = 1
    /\ txFifo # <<>>
    /\ rxFifo # <<>>

(***************************************************************************)
(* Backpressure of write_raw (checked under SpecTx).                       *)
(***************************************************************************)
\* C21: write_raw pushes only into a transmit FIFO that has room: between the poll that
\* found room and the push only the slot acts, and it only removes words, so every push is
\* taken, the word goes to the tail of the FIFO, the FIFO never holds more than its
\* capacity, and at the return every frame of the buffer has been pushed, in order.
C21_PushFindsRoom ==
    /\ [](Len(txFifo) <= FifoDepth)
    /\ [](wr.pc = "push" => Len(txFifo) < FifoDepth)
    /\ [][(wr.pc = "push" /\ wr'.n # wr.n)
            => LET word == ((wr.buf[2 * wr.n + 1] % 2) * 256) + wr.buf[2 * wr.n + 2]
               IN  /\ txFifo' = Append(txFifo, word)
                   /\ wr'.pushed = Append(wr.pushed, word)
                   /\ wr'.n = wr.n + 1]_vars
    /\ []((wr.op = "write" /\ wr.pc = "done")
            => (wr.n = Len(wr.buf) \div 2 /\ Len(wr.pushed) = wr.n))

C21_Witness ==
    /\ wr.op = "write" /\ wr.pc = "done"
    /\ wr.spun
    /\ Len(wr.pushed) = 2
    /\ Len(txFifo) = FifoDepth
    /\ SubSeq(txFifo, FifoDepth - 1, FifoDepth) = wr.pushed

====
